---- MODULE Spec2Model ----
(***************************************************************************)
(* Response formatters of the Google Cloud Natural Language plugin         *)
(* (python-lib/cloud_api.py): format_named_entity_recognition,             *)
(* format_sentiment_analysis, scale_sentiment_score and                    *)
(* format_text_classification.                                             *)
(*                                                                         *)
(* Python values are tagged records, so that values of different Python    *)
(* types are comparable and never equal:                                   *)
(*   Str(s)   a str               Num(n)   a number (fixed point, below)   *)
(*   List(l)  a list              None     Python None / JSON null         *)
(* A dict is a function whose domain is its set of (string) keys.          *)
(*                                                                         *)
(* Numbers are fixed point in units of 1/200: Hundredths(k) is k/100.      *)
(* Every score with two decimals is an even number of units, so that       *)
(* (score + 1) / 2 is again a whole number of units.                       *)
(***************************************************************************)
EXTENDS Integers, Sequences, FiniteSets, TLC

VARIABLES
    row,      \* the row dict handed to the formatter, mutated in place
    call,     \* the call made: function name and arguments (row as passed)
    outcome,  \* "none" before the call, then "returned" or "raised"
    result    \* the value the call returned (None before it, and if it raised)

vars == <<row, call, outcome, result>>

----------------------------------------------------------------------------
(* Python values *)

Str(s) == [t |-> "str", s |-> s]
Num(n) == [t |-> "num", n |-> n]
List(l) == [t |-> "list", l |-> l]
None == [t |-> "none"]

Hundredths(k) == 2 * k

\* dict.get(key, default)
Get(d, key, default) == IF key \in DOMAIN d THEN d[key] ELSE default

\* d[key] = value
Put(d, key, value) ==
    [k \in DOMAIN d \cup {key} |-> IF k = key THEN value ELSE d[k]]

EmptyDict == [k \in {} |-> None]

----------------------------------------------------------------------------
(* Bounds of the model *)

\* scores range over -ScoreRange/100 .. ScoreRange/100
ScoreRange == 100
\* at most MaxKeys columns besides the response column in the input row
MaxKeys == 2
\* at most MaxEntities entities in a response
MaxEntities == 2
\* at most MaxCategories categories in a response
MaxCategories == 3
\* num_categories ranges over 0 .. MaxNumCategories
MaxNumCategories == 3

----------------------------------------------------------------------------
(* plugin_io_utils: the collaborators imported at line 9-10 *)

ErrorHandlingEnum == {"LOG", "FAIL", "SILENT"}
OutputFormatEnum == {"SINGLE_COLUMN", "MULTIPLE_COLUMNS"}

\* the first of base_1, base_2, ... that is not an existing name
RECURSIVE first_free_suffix(_, _, _)
first_free_suffix(base, existing_names, j) ==
    LET new_name == base \o "_" \o ToString(j)
    IN  IF new_name \notin existing_names
        THEN new_name
        ELSE first_free_suffix(base, existing_names, j + 1)

\* prefix + "_" + name, deduplicated against the existing names
generate_unique(name, existing_names, prefix) ==
    LET new_name == prefix \o "_" \o name
    IN  IF new_name \notin existing_names
        THEN new_name
        ELSE first_free_suffix(new_name, existing_names, 1)

\* A raw response is the text of a JSON document, kept with what it decodes
\* to, or a text that is not JSON.
RawJson(obj) == [t |-> "raw", json |-> obj]
Malformed == [t |-> "raw", invalid |-> "{not json"]

\* json.loads under the error-handling policy: the decoded object; on
\* malformed JSON the empty object, or an error under the raising policy
safe_json_loads(str_to_check, error_handling) ==
    IF "json" \in DOMAIN str_to_check
    THEN [raised |-> FALSE, value |-> str_to_check.json]
    ELSE IF error_handling = "FAIL"
         THEN [raised |-> TRUE]
         ELSE [raised |-> FALSE, value |-> EmptyDict]

----------------------------------------------------------------------------
(* language.enums.Entity.Type.__members__, in declaration order *)

EntityTypes ==
    << "UNKNOWN", "PERSON", "LOCATION", "ORGANIZATION", "EVENT",
       "WORK_OF_ART", "CONSUMER_GOOD", "OTHER", "PHONE_NUMBER", "ADDRESS",
       "DATE", "NUMBER", "PRICE" >>

\* str.lower() on the entity type names
lower(n) ==
    CASE n = "UNKNOWN" -> "unknown"
      [] n = "PERSON" -> "person"
      [] n = "LOCATION" -> "location"
      [] n = "ORGANIZATION" -> "organization"
      [] n = "EVENT" -> "event"
      [] n = "WORK_OF_ART" -> "work_of_art"
      [] n = "CONSUMER_GOOD" -> "consumer_good"
      [] n = "OTHER" -> "other"
      [] n = "PHONE_NUMBER" -> "phone_number"
      [] n = "ADDRESS" -> "address"
      [] n = "DATE" -> "date"
      [] n = "NUMBER" -> "number"
      [] n = "PRICE" -> "price"

----------------------------------------------------------------------------
(* Results of a formatter call *)

Returned(r) == [status |-> "returned", row |-> r]
Raised(r) == [status |-> "raised", row |-> r]

----------------------------------------------------------------------------
(* scale_sentiment_score, lines 130-160 *)

\* the scaling with the ternary tests made non-strict
scale_sentiment_score_inclusive_ternary(score, scale) ==
    IF scale = "binary"
    THEN IF score < 0 THEN Str("negative") ELSE Str("positive")
    ELSE IF scale = "ternary"
    THEN IF score <= Hundredths(-33) THEN Str("negative")
         ELSE IF score >= Hundredths(33) THEN Str("positive")
         ELSE Str("neutral")
    ELSE IF scale = "quinary"
    THEN IF score < Hundredths(-66) THEN Str("highly negative")
         ELSE IF score < Hundredths(-33) THEN Str("negative")
         ELSE IF score < Hundredths(33) THEN Str("neutral")
         ELSE IF score < Hundredths(66) THEN Str("positive")
         ELSE Str("highly positive")
    ELSE IF scale = "rescale_zero_to_one"
    THEN Num((score + Hundredths(100)) \div 2)
    ELSE Num(score)

\* the scaling with the last quinary test made non-strict
scale_sentiment_score_inclusive_quinary(score, scale) ==
    IF scale = "binary"
    THEN IF score < 0 THEN Str("negative") ELSE Str("positive")
    ELSE IF scale = "ternary"
    THEN IF score < Hundredths(-33) THEN Str("negative")
         ELSE IF score > Hundredths(33) THEN Str("positive")
         ELSE Str("neutral")
    ELSE IF scale = "quinary"
    THEN IF score < Hundredths(-66) THEN Str("highly negative")
         ELSE IF score < Hundredths(-33) THEN Str("negative")
         ELSE IF score < Hundredths(33) THEN Str("neutral")
         ELSE IF score <= Hundredths(66) THEN Str("positive")
         ELSE Str("highly positive")
    ELSE IF scale = "rescale_zero_to_one"
    THEN Num((score + Hundredths(100)) \div 2)
    ELSE Num(score)

scale_sentiment_score(score, scale) ==
    IF scale = "binary"
    THEN IF score < 0 THEN Str("negative") ELSE Str("positive")
    ELSE IF scale = "ternary"
    THEN IF score < Hundredths(-33) THEN Str("negative")
         ELSE IF score > Hundredths(33) THEN Str("positive")
         ELSE Str("neutral")
    ELSE IF scale = "quinary"
    THEN IF score < Hundredths(-66) THEN Str("highly negative")
         ELSE IF score < Hundredths(-33) THEN Str("negative")
         ELSE IF score < Hundredths(33) THEN Str("neutral")
         ELSE IF score < Hundredths(66) THEN Str("positive")
         ELSE Str("highly positive")
    ELSE IF scale = "rescale_zero_to_one"
    THEN Num((score + Hundredths(100)) \div 2)
    ELSE Num(score)

----------------------------------------------------------------------------
(* format_named_entity_recognition, lines 59-89 *)

\* the column value without the replacement of the empty list by ''
entity_type_value_keep_empty_list(entities, n) ==
    LET matching == SelectSeq(entities,
                        LAMBDA e : Get(e, "type", Str("")) = Str(n))
        names == [i \in 1 .. Len(matching) |-> Get(matching[i], "name", None)]
    IN  List(names)

\* lines 84-88: the value of the column of entity type n
entity_type_value(entities, n) ==
    LET matching == SelectSeq(entities,
                        LAMBDA e : Get(e, "type", Str("")) = Str(n))
        names == [i \in 1 .. Len(matching) |-> Get(matching[i], "name", None)]
    IN  IF Len(names) = 0 THEN Str("") ELSE List(names)

\* lines 81-88: the loop over the entity types, from the i-th on
RECURSIVE entity_type_columns(_, _, _, _)
entity_type_columns(r, entities, column_prefix, i) ==
    IF i > Len(EntityTypes)
    THEN r
    ELSE LET n == EntityTypes[i]
             entity_type_column ==
                 generate_unique("entity_type_" \o lower(n), DOMAIN r,
                                 column_prefix)
         IN  entity_type_columns(
                 Put(r, entity_type_column, entity_type_value(entities, n)),
                 entities, column_prefix, i + 1)

\* the formatter with the single column defaulting to the empty list, the
\* default of the other branch
format_named_entity_recognition_list_default(r, response_column, output_format, column_prefix, error_handling) ==
    LET loaded == safe_json_loads(r[response_column], error_handling)
    IN  IF loaded.raised
        THEN Raised(r)
        ELSE LET response == loaded.value
             IN  IF output_format = "SINGLE_COLUMN"
                 THEN LET entity_column ==
                              generate_unique("entities", DOMAIN r,
                                              column_prefix)
                      IN  Returned(Put(r, entity_column,
                                       Get(response, "entities",
                                           List(<< >>))))
                 ELSE LET entities ==
                              Get(response, "entities", List(<< >>)).l
                      IN  Returned(entity_type_columns(
                                       r, entities, column_prefix, 1))

format_named_entity_recognition(r, response_column, output_format, column_prefix, error_handling) ==
    LET loaded == safe_json_loads(r[response_column], error_handling)
    IN  IF loaded.raised
        THEN Raised(r)
        ELSE LET response == loaded.value
             IN  IF output_format = "SINGLE_COLUMN"
                 THEN LET entity_column ==
                              generate_unique("entities", DOMAIN r,
                                              column_prefix)
                      IN  Returned(Put(r, entity_column,
                                       Get(response, "entities", Str(""))))
                 ELSE LET entities ==
                              Get(response, "entities", List(<< >>)).l
                      IN  Returned(entity_type_columns(
                                       r, entities, column_prefix, 1))

----------------------------------------------------------------------------
(* format_sentiment_analysis, lines 92-127 *)

\* the column names with the scaled score's generated from "score"
sentiment_columns_same_name(r, column_prefix) ==
    [score |-> generate_unique("score", DOMAIN r, column_prefix),
     score_scaled |-> generate_unique("score", DOMAIN r, column_prefix),
     magnitude |-> generate_unique("magnitude", DOMAIN r, column_prefix)]

\* lines 107-112: the three column names, each generated from the keys the
\* row has before any of them is written
sentiment_columns(r, column_prefix) ==
    [score |-> generate_unique("score", DOMAIN r, column_prefix),
     score_scaled |-> generate_unique("score_scaled", DOMAIN r, column_prefix),
     magnitude |-> generate_unique("magnitude", DOMAIN r, column_prefix)]

\* the formatter with the magnitude written only when there is a score
format_sentiment_analysis_magnitude_with_score(r, response_column, sentiment_scale, column_prefix, error_handling) ==
    LET loaded == safe_json_loads(r[response_column], error_handling)
    IN  IF loaded.raised
        THEN Raised(r)
        ELSE LET response == loaded.value
                 columns == sentiment_columns(r, column_prefix)
                 sentiment_score_column == columns.score
                 sentiment_score_scaled_column == columns.score_scaled
                 sentiment_magnitude_column == columns.magnitude
                 sentiment == Get(response, "documentSentiment", EmptyDict)
                 sentiment_score == Get(sentiment, "score", None)
                 magnitude_score == Get(sentiment, "magnitude", None)
                 r1 == IF sentiment_score # None
                       THEN Put(Put(r, sentiment_score_column,
                                    Num(sentiment_score.n)),
                                sentiment_score_scaled_column,
                                scale_sentiment_score(sentiment_score.n,
                                                      sentiment_scale))
                       ELSE Put(Put(r, sentiment_score_column, None),
                                sentiment_score_scaled_column, None)
                 r2 == IF magnitude_score # None /\ sentiment_score # None
                       THEN Put(r1, sentiment_magnitude_column,
                                Num(magnitude_score.n))
                       ELSE Put(r1, sentiment_magnitude_column, None)
             IN  Returned(r2)

\* the formatter reading response["documentSentiment"], a KeyError when the
\* field is absent
format_sentiment_analysis_subscript(r, response_column, sentiment_scale, column_prefix, error_handling) ==
    LET loaded == safe_json_loads(r[response_column], error_handling)
    IN  IF loaded.raised
        THEN Raised(r)
        ELSE IF "documentSentiment" \notin DOMAIN loaded.value
        THEN Raised(r)
        ELSE LET response == loaded.value
                 columns == sentiment_columns(r, column_prefix)
                 sentiment_score_column == columns.score
                 sentiment_score_scaled_column == columns.score_scaled
                 sentiment_magnitude_column == columns.magnitude
                 sentiment == response["documentSentiment"]
                 sentiment_score == Get(sentiment, "score", None)
                 magnitude_score == Get(sentiment, "magnitude", None)
                 r1 == IF sentiment_score # None
                       THEN Put(Put(r, sentiment_score_column,
                                    Num(sentiment_score.n)),
                                sentiment_score_scaled_column,
                                scale_sentiment_score(sentiment_score.n,
                                                      sentiment_scale))
                       ELSE Put(Put(r, sentiment_score_column, None),
                                sentiment_score_scaled_column, None)
                 r2 == IF magnitude_score # None
                       THEN Put(r1, sentiment_magnitude_column,
                                Num(magnitude_score.n))
                       ELSE Put(r1, sentiment_magnitude_column, None)
             IN  Returned(r2)

format_sentiment_analysis(r, response_column, sentiment_scale, column_prefix, error_handling) ==
    LET loaded == safe_json_loads(r[response_column], error_handling)
    IN  IF loaded.raised
        THEN Raised(r)
        ELSE LET response == loaded.value
                 columns == sentiment_columns(r, column_prefix)
                 sentiment_score_column == columns.score
                 sentiment_score_scaled_column == columns.score_scaled
                 sentiment_magnitude_column == columns.magnitude
                 sentiment == Get(response, "documentSentiment", EmptyDict)
                 sentiment_score == Get(sentiment, "score", None)
                 magnitude_score == Get(sentiment, "magnitude", None)
                 r1 == IF sentiment_score # None
                       THEN Put(Put(r, sentiment_score_column,
                                    Num(sentiment_score.n)),
                                sentiment_score_scaled_column,
                                scale_sentiment_score(sentiment_score.n,
                                                      sentiment_scale))
                       ELSE Put(Put(r, sentiment_score_column, None),
                                sentiment_score_scaled_column, None)
                 r2 == IF magnitude_score # None
                       THEN Put(r1, sentiment_magnitude_column,
                                Num(magnitude_score.n))
                       ELSE Put(r1, sentiment_magnitude_column, None)
             IN  Returned(r2)

----------------------------------------------------------------------------
(* format_text_classification, lines 163-199 *)

\* x inserted before the elements of its own confidence
RECURSIVE insert_descending_before_equal(_, _)
insert_descending_before_equal(sorted, x) ==
    IF sorted = << >>
    THEN << x >>
    ELSE IF Head(sorted).confidence.n > x.confidence.n
         THEN << Head(sorted) >>
                  \o insert_descending_before_equal(Tail(sorted), x)
         ELSE << x >> \o sorted

\* x inserted into a list sorted by descending confidence, after every
\* element of at least its confidence
RECURSIVE insert_descending(_, _)
insert_descending(sorted, x) ==
    IF sorted = << >>
    THEN << x >>
    ELSE IF Head(sorted).confidence.n >= x.confidence.n
         THEN << Head(sorted) >> \o insert_descending(Tail(sorted), x)
         ELSE << x >> \o sorted

\* lines 184-186: sorted(categories, key=confidence, reverse=True); the sort
\* is stable, and reverse=True keeps equal elements in their input order
RECURSIVE sorted_by_confidence(_)
sorted_by_confidence(categories) ==
    IF categories = << >>
    THEN << >>
    ELSE insert_descending(
             sorted_by_confidence(SubSeq(categories, 1, Len(categories) - 1)),
             categories[Len(categories)])

\* the column names of slot n generated without looking at the row's keys
category_slot_columns_unchecked(r, n, column_prefix) ==
    [category |->
         generate_unique("category_" \o ToString(n), {}, column_prefix),
     confidence |->
         generate_unique("category_" \o ToString(n) \o "_confidence",
                         {}, column_prefix)]

\* lines 188-192: the two column names of slot n, both generated from the
\* keys the row has before either is written
category_slot_columns(r, n, column_prefix) ==
    [category |->
         generate_unique("category_" \o ToString(n), DOMAIN r, column_prefix),
     confidence |->
         generate_unique("category_" \o ToString(n) \o "_confidence",
                         DOMAIN r, column_prefix)]

\* lines 187-198: the loop over the slots n .. num_categories - 1
RECURSIVE category_columns(_, _, _, _, _)
category_columns(r, categories, num_categories, column_prefix, n) ==
    IF n >= num_categories
    THEN r
    ELSE LET columns == category_slot_columns(r, n, column_prefix)
             category_column == columns.category
             confidence_column == columns.confidence
             r1 == IF Len(categories) > n
                   THEN Put(Put(r, category_column,
                                Get(categories[n + 1], "name", Str(""))),
                            confidence_column,
                            Get(categories[n + 1], "confidence", None))
                   ELSE Put(Put(r, category_column, Str("")),
                            confidence_column, None)
         IN  category_columns(r1, categories, num_categories, column_prefix,
                              n + 1)

\* the formatter sorting the categories before the branch on the format
format_text_classification_sorted_single(r, response_column, output_format, num_categories, column_prefix, error_handling) ==
    LET loaded == safe_json_loads(r[response_column], error_handling)
    IN  IF loaded.raised
        THEN Raised(r)
        ELSE LET response == loaded.value
                 categories ==
                     sorted_by_confidence(
                         Get(response, "categories", List(<< >>)).l)
             IN  IF output_format = "SINGLE_COLUMN"
                 THEN LET classification_column ==
                              generate_unique("categories", DOMAIN r,
                                              column_prefix)
                      IN  Returned(Put(r, classification_column,
                                       IF "categories" \in DOMAIN response
                                       THEN List(categories)
                                       ELSE Str("")))
                 ELSE Returned(category_columns(
                                   r, categories, num_categories,
                                   column_prefix, 0))

format_text_classification(r, response_column, output_format, num_categories, column_prefix, error_handling) ==
    LET loaded == safe_json_loads(r[response_column], error_handling)
    IN  IF loaded.raised
        THEN Raised(r)
        ELSE LET response == loaded.value
             IN  IF output_format = "SINGLE_COLUMN"
                 THEN LET classification_column ==
                              generate_unique("categories", DOMAIN r,
                                              column_prefix)
                      IN  Returned(Put(r, classification_column,
                                       Get(response, "categories", Str(""))))
                 ELSE LET categories ==
                              sorted_by_confidence(
                                  Get(response, "categories", List(<< >>)).l)
                      IN  Returned(category_columns(
                                       r, categories, num_categories,
                                       column_prefix, 0))

----------------------------------------------------------------------------
(* Inputs *)

SeqsUpTo(S, n) == UNION {[1 .. k -> S] : k \in 0 .. n}

ResponseColumn == "response"

Prefixes == {"api", "nlp"}

ScaleModes ==
    {"binary", "ternary", "quinary", "rescale_zero_to_one", "original"}

\* column names a row may already hold, among them the names the formatters
\* derive from the prefixes
KeyPool ==
    {"api_score", "api_score_1", "api_category_0",
     "api_category_0_confidence", "api_entities", "api_entity_type_person",
     "nlp_magnitude"}

OldValue == Str("old")

EntityPool ==
    {[name |-> Str("A"), type |-> Str("PERSON")],
     [name |-> Str("B"), type |-> Str("PERSON")],
     [name |-> Str("C"), type |-> Str("LOCATION")],
     [name |-> Str("D")]}

CategoryPool ==
    {[name |-> Str("X"), confidence |-> Num(Hundredths(90))],
     [name |-> Str("Y"), confidence |-> Num(Hundredths(90))],
     [name |-> Str("Z"), confidence |-> Num(Hundredths(50))]}

SentimentScores ==
    {Num(Hundredths(k)) : k \in {-70, -33, 0, 33, 70}} \cup {None}

SentimentMagnitudes == {Num(Hundredths(80)), None}

\* marks a field left out of a JSON object
Absent == [t |-> "absent"]

\* a sentiment object with the given score and magnitude; Absent leaves the
\* field out, None is a JSON null
SentimentObject(score, magnitude) ==
    [k \in (IF score = Absent THEN {} ELSE {"score"})
           \cup (IF magnitude = Absent THEN {} ELSE {"magnitude"})
       |-> IF k = "score" THEN score ELSE magnitude]

NerResponses ==
    {[entities |-> List(es)] : es \in SeqsUpTo(EntityPool, MaxEntities)}

ClassificationResponses ==
    {[categories |-> List(cs)] : cs \in SeqsUpTo(CategoryPool, MaxCategories)}

SentimentResponses ==
    {[documentSentiment |-> SentimentObject(s, m)] :
        s \in SentimentScores \cup {Absent},
        m \in SentimentMagnitudes \cup {Absent}}

\* an object with none of the fields the formatters read
OtherObject == [language |-> Str("en")]

\* the decoded responses: of each of the three APIs, and the objects
\* without any of their fields
Responses ==
    NerResponses \cup ClassificationResponses \cup SentimentResponses
        \cup {EmptyDict, OtherObject}

RawResponses == {RawJson(obj) : obj \in Responses} \cup {Malformed}

\* what a formatter is called on: a response of its own API, an object
\* without the field it reads, or text that is not JSON
RawResponsesOf(responses) ==
    {RawJson(obj) : obj \in responses \cup {EmptyDict, OtherObject}}
        \cup {Malformed}

KeySets == {ks \in SUBSET KeyPool : Cardinality(ks) <= MaxKeys}

Rows ==
    {[k \in ks \cup {ResponseColumn} |->
         IF k = ResponseColumn THEN raw ELSE OldValue] :
        ks \in KeySets, raw \in RawResponses}

NoCall == [fn |-> "none"]

----------------------------------------------------------------------------
(* The formatters, each called once on a row *)

Init ==
    /\ row \in Rows
    /\ call = NoCall
    /\ outcome = "none"
    /\ result = None

FormatNamedEntityRecognition ==
    /\ call = NoCall
    /\ row[ResponseColumn] \in RawResponsesOf(NerResponses)
    /\ \E output_format \in OutputFormatEnum, column_prefix \in Prefixes,
          error_handling \in ErrorHandlingEnum :
          LET res == format_named_entity_recognition(
                         row, ResponseColumn, output_format, column_prefix,
                         error_handling)
          IN  /\ call' = [fn |-> "format_named_entity_recognition",
                          row |-> row,
                          output_format |-> output_format,
                          column_prefix |-> column_prefix,
                          error_handling |-> error_handling]
              /\ row' = res.row
              /\ outcome' = res.status
              /\ result' = IF res.status = "returned" THEN res.row ELSE None

FormatSentimentAnalysis ==
    /\ call = NoCall
    /\ row[ResponseColumn] \in RawResponsesOf(SentimentResponses)
    /\ \E sentiment_scale \in ScaleModes, column_prefix \in Prefixes,
          error_handling \in ErrorHandlingEnum :
          LET res == format_sentiment_analysis(
                         row, ResponseColumn, sentiment_scale, column_prefix,
                         error_handling)
          IN  /\ call' = [fn |-> "format_sentiment_analysis",
                          row |-> row,
                          sentiment_scale |-> sentiment_scale,
                          column_prefix |-> column_prefix,
                          error_handling |-> error_handling]
              /\ row' = res.row
              /\ outcome' = res.status
              /\ result' = IF res.status = "returned" THEN res.row ELSE None

FormatTextClassification ==
    /\ call = NoCall
    /\ row[ResponseColumn] \in RawResponsesOf(ClassificationResponses)
    /\ \E output_format \in OutputFormatEnum,
          num_categories \in 0 .. MaxNumCategories,
          column_prefix \in Prefixes, error_handling \in ErrorHandlingEnum :
          LET res == format_text_classification(
                         row, ResponseColumn, output_format, num_categories,
                         column_prefix, error_handling)
          IN  /\ call' = [fn |-> "format_text_classification",
                          row |-> row,
                          output_format |-> output_format,
                          num_categories |-> num_categories,
                          column_prefix |-> column_prefix,
                          error_handling |-> error_handling]
              /\ row' = res.row
              /\ outcome' = res.status
              /\ result' = IF res.status = "returned" THEN res.row ELSE None

Next ==
    \/ FormatNamedEntityRecognition
    \/ FormatSentimentAnalysis
    \/ FormatTextClassification

Spec == Init /\ [][Next]_vars

----------------------------------------------------------------------------
(* scale_sentiment_score, called once on a score and a scale mode *)

Scores == {Hundredths(k) : k \in (0 - ScoreRange) .. ScoreRange}

InitScale ==
    /\ row = EmptyDict
    /\ call = NoCall
    /\ outcome = "none"
    /\ result = None

ScaleSentimentScore ==
    /\ call = NoCall
    /\ \E score \in Scores, scale \in ScaleModes :
          /\ call' = [fn |-> "scale_sentiment_score", score |-> score,
                      scale |-> scale]
          /\ outcome' = "returned"
          /\ result' = scale_sentiment_score(score, scale)
    /\ UNCHANGED row

NextScale == ScaleSentimentScore

SpecScale == InitScale /\ [][NextScale]_vars

----------------------------------------------------------------------------
(* Properties of scale_sentiment_score, checked under SpecScale *)

Scaled == call.fn = "scale_sentiment_score" /\ outcome = "returned"

\* the label of a score that lies strictly inside a quinary bucket, and the
\* two labels a score on the split between two buckets may take
QuinaryLabels(score) ==
    (IF score <= Hundredths(-66) THEN {Str("highly negative")} ELSE {})
    \cup (IF Hundredths(-66) <= score /\ score <= Hundredths(-33)
          THEN {Str("negative")} ELSE {})
    \cup (IF Hundredths(-33) <= score /\ score <= Hundredths(33)
          THEN {Str("neutral")} ELSE {})
    \cup (IF Hundredths(33) <= score /\ score <= Hundredths(66)
          THEN {Str("positive")} ELSE {})
    \cup (IF Hundredths(66) <= score THEN {Str("highly positive")} ELSE {})

\* C1: scale_sentiment_score(score, mode) follows the table of the modes:
\* binary is 'negative' below 0 and 'positive' otherwise; ternary is
\* 'negative' below -0.33, 'positive' above 0.33 and 'neutral' otherwise;
\* quinary is one of five labels split at -0.66, -0.33, 0.33 and 0.66;
\* rescale_zero_to_one is (score + 1) / 2; any other mode is the score
\* itself, as a number.
C1_ScaleTable ==
    Scaled =>
        LET score == call.score
            mode == call.scale
        IN  /\ mode = "binary" =>
                  /\ score < 0 => result = Str("negative")
                  /\ ~(score < 0) => result = Str("positive")
            /\ mode = "ternary" =>
                  /\ score < Hundredths(-33) => result = Str("negative")
                  /\ score > Hundredths(33) => result = Str("positive")
                  /\ (Hundredths(-33) <= score /\ score <= Hundredths(33))
                         => result = Str("neutral")
            /\ mode = "quinary" => result \in QuinaryLabels(score)
            /\ mode = "rescale_zero_to_one" =>
                  /\ result.t = "num"
                  /\ 2 * result.n = score + Hundredths(100)
            /\ mode \notin {"binary", "ternary", "quinary",
                            "rescale_zero_to_one"} => result = Num(score)

\* scale(-0.33, 'ternary') == 'neutral' has been computed
C1_Witness ==
    /\ Scaled
    /\ call.scale = "ternary"
    /\ call.score = Hundredths(-33)
    /\ result = Str("neutral")

\* the thresholds of the comparison chain of a mode
Thresholds(mode) ==
    CASE mode = "binary" -> {0}
      [] mode = "ternary" -> {Hundredths(-33), Hundredths(33)}
      [] mode = "quinary" -> {Hundredths(-66), Hundredths(-33),
                              Hundredths(33), Hundredths(66)}
      [] OTHER -> {}

\* the label of the bucket above a threshold of a mode
BucketAbove(mode, threshold) ==
    CASE mode = "binary" -> Str("positive")
      [] mode = "ternary" /\ threshold = Hundredths(-33) -> Str("neutral")
      [] mode = "ternary" /\ threshold = Hundredths(33) -> Str("positive")
      [] mode = "quinary" /\ threshold = Hundredths(-66) -> Str("negative")
      [] mode = "quinary" /\ threshold = Hundredths(-33) -> Str("neutral")
      [] mode = "quinary" /\ threshold = Hundredths(33) -> Str("positive")
      [] mode = "quinary" /\ threshold = Hundredths(66) ->
             Str("highly positive")

\* C2 as stated: in every comparison chain, a score equal to a threshold
\* takes the label of the bucket above the threshold.
C2_BoundaryAlwaysAbove ==
    (Scaled /\ call.score \in Thresholds(call.scale)) =>
        result = BucketAbove(call.scale, call.score)

\* C2, amended: a score equal to a threshold takes the label of the bucket
\* above the threshold, except at the ternary threshold 0.33, where the
\* test is the strict score > 0.33 and the score takes 'neutral', the label
\* of the bucket below.
C2_BoundaryAboveExceptTernaryUpper ==
    (Scaled /\ call.score \in Thresholds(call.scale)) =>
        IF call.scale = "ternary" /\ call.score = Hundredths(33)
        THEN result = Str("neutral")
        ELSE result = BucketAbove(call.scale, call.score)

\* scale(0.33, 'ternary') has been computed, and is 'neutral'
C2_Witness ==
    /\ Scaled
    /\ call.scale = "ternary"
    /\ call.score = Hundredths(33)
    /\ result = Str("neutral")

----------------------------------------------------------------------------
(* Properties of the formatters, checked under Spec *)

Formatters ==
    {"format_named_entity_recognition", "format_sentiment_analysis",
     "format_text_classification"}

Formatted(fn) == call.fn = fn /\ outcome = "returned"

\* the keys the call added to the row
NewKeys == DOMAIN row \ DOMAIN call.row

\* the names a base name may be deduplicated to: itself, or itself with a
\* numeric suffix
DerivedNames(base) ==
    {base} \cup {base \o "_" \o ToString(j) :
                    j \in 1 .. Cardinality(DOMAIN call.row)}

\* the added keys that are the call's prefix + "_" + name, deduplicated
ColumnsOf(name) ==
    NewKeys \cap DerivedNames(call.column_prefix \o "_" \o name)

\* the response column's text as passed to the call
RawResponse == call.row[ResponseColumn]

IsJson == "json" \in DOMAIN RawResponse

\* what the response decodes to; nothing is read from text that is not JSON
Decoded == IF IsJson THEN RawResponse.json ELSE EmptyDict

\* the number of earlier elements of a stable sort by descending confidence
Rank(cats, i) ==
    Cardinality({j \in 1 .. Len(cats) :
        \/ cats[j].confidence.n > cats[i].confidence.n
        \/ cats[j].confidence.n = cats[i].confidence.n /\ j < i})

\* C3: in MULTIPLE_COLUMNS mode with num_categories = N,
\* format_text_classification writes exactly N (name, confidence) column
\* pairs; slot n holds the name and confidence of the n-th category by
\* descending confidence, equal confidences in input order, and ('', None)
\* at or beyond the number of categories.
C3_TopCategories ==
    (Formatted("format_text_classification")
         /\ call.output_format = "MULTIPLE_COLUMNS") =>
        LET cats == Get(Decoded, "categories", List(<< >>)).l
        IN  /\ Cardinality(NewKeys) = 2 * call.num_categories
            /\ \A n \in 0 .. call.num_categories - 1 :
                  LET names == ColumnsOf("category_" \o ToString(n))
                      confs == ColumnsOf("category_" \o ToString(n)
                                             \o "_confidence")
                  IN  /\ Cardinality(names) = 1
                      /\ Cardinality(confs) = 1
                      /\ \A kn \in names, kc \in confs :
                            IF n < Len(cats)
                            THEN \E i \in 1 .. Len(cats) :
                                    /\ Rank(cats, i) = n
                                    /\ row[kn] = cats[i].name
                                    /\ row[kc] = cats[i].confidence
                            ELSE row[kn] = Str("") /\ row[kc] = None

\* two categories of equal confidence after a lower one, three slots asked:
\* the two come first in their input order, then the lower one
C3_Witness ==
    /\ Formatted("format_text_classification")
    /\ call.output_format = "MULTIPLE_COLUMNS"
    /\ call.num_categories = 3
    /\ call.column_prefix = "api"
    /\ IsJson
    /\ "categories" \in DOMAIN Decoded
    /\ Len(Decoded.categories.l) = 3
    /\ Decoded.categories.l[1].name = Str("Z")
    /\ Decoded.categories.l[2].name = Str("Y")
    /\ Decoded.categories.l[3].name = Str("X")
    /\ "api_category_0" \in DOMAIN call.row
    /\ row["api_category_0_1"] = Str("Y")
    /\ row["api_category_1"] = Str("X")
    /\ row["api_category_2"] = Str("Z")
    /\ row["api_category_2_confidence"] = Num(Hundredths(50))

\* the names of the entities of type T, in input order
RECURSIVE NamesOfType(_, _)
NamesOfType(entities, T) ==
    IF entities = << >>
    THEN << >>
    ELSE (IF "type" \in DOMAIN Head(entities)
                /\ Head(entities).type = Str(T)
          THEN << Get(Head(entities), "name", None) >>
          ELSE << >>) \o NamesOfType(Tail(entities), T)

\* C4: in MULTIPLE_COLUMNS mode, format_named_entity_recognition writes one
\* column for every entity type; the column of type T holds the names of
\* the entities of type T in input order, and '' when there is none.
C4_OneColumnPerEntityType ==
    (Formatted("format_named_entity_recognition")
         /\ call.output_format = "MULTIPLE_COLUMNS") =>
        LET entities == Get(Decoded, "entities", List(<< >>)).l
        IN  /\ Cardinality(NewKeys) = Len(EntityTypes)
            /\ \A i \in 1 .. Len(EntityTypes) :
                  LET T == EntityTypes[i]
                      columns == ColumnsOf("entity_type_" \o lower(T))
                      names == NamesOfType(entities, T)
                  IN  /\ Cardinality(columns) = 1
                      /\ \A k \in columns :
                            IF names = << >>
                            THEN row[k] = Str("")
                            ELSE row[k] = List(names)

\* one PERSON entity A: the PERSON column is ["A"], the LOCATION column ''
C4_Witness ==
    /\ Formatted("format_named_entity_recognition")
    /\ call.output_format = "MULTIPLE_COLUMNS"
    /\ call.column_prefix = "nlp"
    /\ Decoded = [entities |->
                     List(<< [name |-> Str("A"), type |-> Str("PERSON")] >>)]
    /\ row["nlp_entity_type_person"] = List(<< Str("A") >>)
    /\ row["nlp_entity_type_location"] = Str("")

\* C5: format_sentiment_analysis writes three columns; with a score, the
\* score column holds it and the scaled column holds
\* scale_sentiment_score(score, sentiment_scale); without one, both hold
\* None; the magnitude column holds the magnitude, or None without one,
\* whether or not there is a score; no error is raised.
C5_SentimentColumns ==
    (call.fn = "format_sentiment_analysis" /\ IsJson) =>
        LET sentiment == Get(Decoded, "documentSentiment", EmptyDict)
            score == Get(sentiment, "score", None)
            magnitude == Get(sentiment, "magnitude", None)
        IN  /\ outcome = "returned"
            /\ Cardinality(NewKeys) = 3
            /\ Cardinality(ColumnsOf("score")) = 1
            /\ Cardinality(ColumnsOf("score_scaled")) = 1
            /\ Cardinality(ColumnsOf("magnitude")) = 1
            /\ \A k \in ColumnsOf("score") : row[k] = score
            /\ \A k \in ColumnsOf("score_scaled") :
                  IF score = None
                  THEN row[k] = None
                  ELSE row[k] = scale_sentiment_score(
                                    score.n, call.sentiment_scale)
            /\ \A k \in ColumnsOf("magnitude") : row[k] = magnitude

\* a magnitude without a score: score and scaled score None, magnitude kept
C5_Witness ==
    /\ Formatted("format_sentiment_analysis")
    /\ call.column_prefix = "api"
    /\ Decoded = [documentSentiment |->
                     [magnitude |-> Num(Hundredths(80))]]
    /\ "api_score" \notin DOMAIN call.row
    /\ row["api_score"] = None
    /\ row["api_score_scaled"] = None
    /\ row["api_magnitude"] = Num(Hundredths(80))

\* the number of columns a call writes
WrittenColumns ==
    CASE call.fn = "format_named_entity_recognition" ->
             IF call.output_format = "SINGLE_COLUMN"
             THEN 1 ELSE Len(EntityTypes)
      [] call.fn = "format_sentiment_analysis" -> 3
      [] call.fn = "format_text_classification" ->
             IF call.output_format = "SINGLE_COLUMN"
             THEN 1 ELSE 2 * call.num_categories

\* every column the call wrote holds its sentinel: '' in the entity and
\* category name columns, None in the score, scaled score, magnitude and
\* confidence columns
SentinelColumns ==
    /\ Cardinality(NewKeys) = WrittenColumns
    /\ call.fn = "format_named_entity_recognition" =>
           \A k \in NewKeys : row[k] = Str("")
    /\ call.fn = "format_sentiment_analysis" =>
           \A k \in NewKeys : row[k] = None
    /\ (call.fn = "format_text_classification"
            /\ call.output_format = "SINGLE_COLUMN") =>
           \A k \in NewKeys : row[k] = Str("")
    /\ (call.fn = "format_text_classification"
            /\ call.output_format = "MULTIPLE_COLUMNS") =>
           \A n \in 0 .. call.num_categories - 1 :
               /\ \E k \in ColumnsOf("category_" \o ToString(n)) :
                      row[k] = Str("")
               /\ \E k \in ColumnsOf("category_" \o ToString(n)
                                         \o "_confidence") :
                      row[k] = None

\* C6: on malformed JSON a formatter raises only under the raising policy;
\* under the other policies it returns the row, every column it writes
\* holding its sentinel.
C6_MalformedJson ==
    (call.fn \in Formatters /\ ~IsJson) =>
        /\ outcome = "raised" => call.error_handling = "FAIL"
        /\ call.error_handling # "FAIL" =>
               /\ outcome = "returned"
               /\ SentinelColumns

\* malformed JSON under LOG, formatted to entity-type columns of ''
C6_Witness ==
    /\ Formatted("format_named_entity_recognition")
    /\ RawResponse = Malformed
    /\ call.error_handling = "LOG"
    /\ call.output_format = "MULTIPLE_COLUMNS"
    /\ call.column_prefix = "nlp"
    /\ row["nlp_entity_type_person"] = Str("")

\* the field a formatter reads from the decoded response
ExpectedField ==
    CASE call.fn = "format_named_entity_recognition" -> "entities"
      [] call.fn = "format_sentiment_analysis" -> "documentSentiment"
      [] call.fn = "format_text_classification" -> "categories"

\* C7: on a response that decodes to an object without the expected field,
\* a formatter raises no error, in either output format, and every column
\* it writes holds its sentinel.
C7_MissingField ==
    (call.fn \in Formatters /\ IsJson /\ ExpectedField \notin DOMAIN Decoded)
        => /\ outcome = "returned"
           /\ SentinelColumns

\* an object without documentSentiment, under the raising policy, formatted
\* to three None columns
C7_Witness ==
    /\ Formatted("format_sentiment_analysis")
    /\ Decoded = OtherObject
    /\ call.error_handling = "FAIL"
    /\ call.column_prefix = "nlp"
    /\ row["nlp_score"] = None
    /\ row["nlp_score_scaled"] = None

\* C8: whatever keys the row has, a formatter writes to none of them: every
\* key the row had is still there with its value, and the row has gained
\* one key for each column written.
C8_ExistingKeysKept ==
    call.fn \in Formatters =>
        /\ \A k \in DOMAIN call.row :
               k \in DOMAIN row /\ row[k] = call.row[k]
        /\ outcome = "returned" => Cardinality(NewKeys) = WrittenColumns
        /\ outcome = "raised" => row = call.row

\* a row that already holds the prefixed names of slot 0: they are kept,
\* and the slot is written under deduplicated names
C8_Witness ==
    /\ Formatted("format_text_classification")
    /\ call.output_format = "MULTIPLE_COLUMNS"
    /\ call.num_categories >= 1
    /\ call.column_prefix = "api"
    /\ "api_category_0" \in DOMAIN call.row
    /\ "api_category_0_confidence" \in DOMAIN call.row
    /\ row["api_category_0"] = OldValue
    /\ row["api_category_0_confidence"] = OldValue
    /\ "api_category_0_1" \in NewKeys
    /\ "api_category_0_confidence_1" \in NewKeys

\* C9: in SINGLE_COLUMN mode the entity and the classification formatter
\* add exactly one column, holding the decoded 'entities' (respectively
\* 'categories') list as it is, or '' when the list is absent.
C9_SingleColumn ==
    (call.fn \in {"format_named_entity_recognition",
                  "format_text_classification"}
         /\ outcome = "returned"
         /\ call.output_format = "SINGLE_COLUMN") =>
        LET name == IF call.fn = "format_named_entity_recognition"
                    THEN "entities" ELSE "categories"
        IN  /\ Cardinality(NewKeys) = 1
            /\ ColumnsOf(name) = NewKeys
            /\ \A k \in NewKeys :
                  IF name \in DOMAIN Decoded
                  THEN row[k] = Decoded[name]
                  ELSE row[k] = Str("")

\* three categories in ascending confidence and num_categories = 1: the
\* single column holds all three, in input order
C9_Witness ==
    /\ Formatted("format_text_classification")
    /\ call.output_format = "SINGLE_COLUMN"
    /\ call.num_categories = 1
    /\ call.column_prefix = "nlp"
    /\ IsJson
    /\ "categories" \in DOMAIN Decoded
    /\ Len(Decoded.categories.l) = 3
    /\ Decoded.categories.l[1].name = Str("Z")
    /\ Decoded.categories.l[2].name = Str("X")
    /\ row["nlp_categories"] = Decoded.categories

\* C10: the names one call generates from the same keys are pairwise
\* distinct: format_sentiment_analysis adds exactly 3 keys, one for each of
\* score, score_scaled and magnitude, and format_text_classification in
\* MULTIPLE_COLUMNS mode adds exactly 2 * num_categories keys, one name and
\* one confidence key for each slot.
C10_GeneratedNamesDistinct ==
    /\ Formatted("format_sentiment_analysis") =>
           /\ Cardinality(NewKeys) = 3
           /\ \A name \in {"score", "score_scaled", "magnitude"} :
                  Cardinality(ColumnsOf(name)) = 1
    /\ (Formatted("format_text_classification")
            /\ call.output_format = "MULTIPLE_COLUMNS") =>
           /\ Cardinality(NewKeys) = 2 * call.num_categories
           /\ \A n \in 0 .. call.num_categories - 1 :
                  /\ Cardinality(ColumnsOf("category_" \o ToString(n))) = 1
                  /\ Cardinality(ColumnsOf("category_" \o ToString(n)
                                               \o "_confidence")) = 1

\* a row holding api_score and api_score_1: the score goes to api_score_2,
\* the scaled score and the magnitude to their own columns
C10_Witness ==
    /\ Formatted("format_sentiment_analysis")
    /\ call.column_prefix = "api"
    /\ "api_score" \in DOMAIN call.row
    /\ "api_score_1" \in DOMAIN call.row
    /\ NewKeys = {"api_score_2", "api_score_scaled", "api_magnitude"}
    /\ row["api_score_2"] # None
    /\ row["api_score_scaled"] # row["api_score_2"]

====
